---- MODULE Spec2Model ----
(***************************************************************************)
(* Model of docker/pdffigures2/server.py: the two extraction handlers      *)
(* (POST /extract, POST /extract-from-path), the normalisation of the      *)
(* tool's figure records, and the per-request working directory.           *)
(***************************************************************************)
EXTENDS Integers, Sequences, FiniteSets, TLC

(* ---------------------------------------------------------------------- *)
(* Bounds of the model                                                     *)
(* ---------------------------------------------------------------------- *)
MaxIds == 2         \* identifiers uuid4 can hand out in one run
MaxFigs == 2        \* records in an output file (transform specification)
ExtraErr == 1       \* how far a process's error stream can exceed the cap
MaxLibDirs == 1     \* directories under the dependency directory
MaxLibFiles == 2    \* files in one of them
MaxCalls == 2       \* calls of get_classpath that are compared

(* ---------------------------------------------------------------------- *)
(* Program constants                                                       *)
(* ---------------------------------------------------------------------- *)
StderrLimit == 1000 \* result.stderr[:1000]

\* The workers that can each run a handler, and the one the main
\* specification drives
Reqs == {"w1", "w2"}
MainReqs == {"w1"}
Ids == 1..MaxIds
NoDir == 0

(* ---------------------------------------------------------------------- *)
(* JSON values, as json.load returns them                                  *)
(* ---------------------------------------------------------------------- *)
JNull == [t |-> "null"]
JStr(s) == [t |-> "str", s |-> s]
JNum(n) == [t |-> "num", n |-> n]
JObj(o) == [t |-> "obj", o |-> o]
Missing == [t |-> "missing"]

\* A dict built from a record of optional fields: the fields marked Missing
\* are not keys of the dict.
MkDict(f) == [k \in {k \in DOMAIN f : f[k].t # "missing"} |-> f[k]]

\* dict.get(key, default): the default is used only when the key is absent;
\* a key whose value is null yields null.
Get(d, k, default) == IF k \in DOMAIN d THEN d[k] ELSE default

\* region.get(...) is an attribute lookup: it exists on dicts only.
HasGet(v) == v.t = "obj"

(* ---------------------------------------------------------------------- *)
(* transform_figures                                                       *)
(* ---------------------------------------------------------------------- *)
NormalizeOne(fig) ==
    LET fig_type == Get(fig, "figType", JStr("Figure"))
        region == Get(fig, "regionBoundary", JObj(<<>>))
    IN  [name |-> Get(fig, "name", JStr("")),
         figType |-> fig_type,
         page |-> Get(fig, "page", JNum(0)),
         caption |-> Get(fig, "caption", JStr("")),
         regionBoundary |->
             [x1 |-> Get(region.o, "x1", JNum(0)),
              y1 |-> Get(region.o, "y1", JNum(0)),
              x2 |-> Get(region.o, "x2", JNum(0)),
              y2 |-> Get(region.o, "y2", JNum(0))],
         imageBoundary |-> Get(fig, "imageBoundary", JNull)]

\* The loop of transform_figures over raw_figures[i..]: figures collected so
\* far in acc; an AttributeError ends the loop and the function.
RECURSIVE TransformFrom(_, _, _)
TransformFrom(raw_figures, i, acc) ==
    IF i > Len(raw_figures) THEN [ok |-> TRUE, figures |-> acc, exc |-> ""]
    ELSE LET fig == raw_figures[i]
             region == Get(fig, "regionBoundary", JObj(<<>>))
         IN  IF ~HasGet(region)
             THEN [ok |-> FALSE, figures |-> <<>>, exc |-> "AttributeError"]
             ELSE TransformFrom(raw_figures, i + 1, Append(acc, NormalizeOne(fig)))

transform_figures(raw_figures) == TransformFrom(raw_figures, 1, <<>>)

(* ---------------------------------------------------------------------- *)
(* Paths and file names                                                    *)
(* ---------------------------------------------------------------------- *)
\* A file name is the sequence of its parts between dots (<<"input", "pdf">>
\* is input.pdf); a path outside the data root is a directory and a file
\* name, a path inside a working directory is the directory's identifier and
\* a file name.
InputPdf == <<"input", "pdf">>
Path(d, n) == [dir |-> d, name |-> n]
basename(p) == p.name
\* os.path.splitext: <<root, extension>>; the extension starts at the last
\* dot, unless only dots precede it
splitext(n) ==
    IF Len(n) >= 2 /\ \E i \in 1..(Len(n) - 1) : n[i] # ""
    THEN <<SubSeq(n, 1, Len(n) - 1), <<n[Len(n)]>>>>
    ELSE <<n, <<>>>>
\* f'{stem}.json'
JsonName(stem) == Append(stem, "json")

PaperPath == Path("/data", <<"paper", "v2", "pdf">>)
InputPath == Path("/data", <<"input", "pdf">>)
GonePath == Path("/data", <<"gone", "pdf">>)
Paths == {PaperPath, InputPath, GonePath}
Names == {InputPdf} \cup {JsonName(splitext(basename(p))[1]) : p \in Paths}

(* ---------------------------------------------------------------------- *)
(* File contents                                                           *)
(* ---------------------------------------------------------------------- *)
FilePdf == [t |-> "pdf", v |-> <<>>]
FileGarbage == [t |-> "garbage", v |-> <<>>]
FileJson(v) == [t |-> "json", v |-> v]

\* json.load: the parsed value, or JSONDecodeError
json_load(content) ==
    IF content.t = "json" THEN [ok |-> TRUE, value |-> content.v, exc |-> ""]
    ELSE [ok |-> FALSE, value |-> <<>>, exc |-> "JSONDecodeError"]

FullFig ==
    MkDict([name |-> JStr("Figure 1"), figType |-> JStr("Table"), page |-> JNum(2),
            caption |-> JStr("A caption"),
            regionBoundary |-> JObj([x1 |-> JNum(10), y1 |-> JNum(20),
                                     x2 |-> JNum(30), y2 |-> JNum(40)]),
            imageBoundary |-> JObj([x1 |-> JNum(11), y1 |-> JNum(21),
                                    x2 |-> JNum(29), y2 |-> JNum(39)])])
BareFig == MkDict([page |-> JNum(3)])
NullRegionFig == MkDict([name |-> JStr("Figure 2"), regionBoundary |-> JNull])

\* What the tool can leave in its output file in the main specification
ToolOutputs ==
    {FileGarbage, FileJson(<<>>), FileJson(<<BareFig, FullFig>>),
     FileJson(<<FullFig, NullRegionFig>>)}

(* ---------------------------------------------------------------------- *)
(* The process's error stream                                              *)
(* ---------------------------------------------------------------------- *)
Stream(n) == [i \in 1..n |-> i % 7]
ErrLens == {1, StderrLimit, StderrLimit + ExtraErr}
\* How the child can end by itself: <<exit code, length of its error stream>>
Exits == {<<0, 1>>, <<-9, 0>>} \cup {<<1, n>> : n \in ErrLens}
Min(a, b) == IF a < b THEN a ELSE b
\* s[:n]
Prefix(s, n) == SubSeq(s, 1, Min(n, Len(s)))

(* ---------------------------------------------------------------------- *)
(* Requests and responses                                                  *)
(* ---------------------------------------------------------------------- *)
NoReq == [variant |-> "none", has_pdf |-> FALSE, filename |-> "",
          body |-> "none", pdf_path |-> GonePath]
UploadReqs ==
    {[variant |-> "upload", has_pdf |-> h, filename |-> f,
      body |-> "none", pdf_path |-> GonePath] :
        h \in BOOLEAN, f \in {"", "paper.pdf"}}
\* body: "invalid" is not JSON, "null" and "empty" are falsy JSON values,
\* "other" is a dict without the key, "path" a dict with pdf_path
PathReqs ==
    {[variant |-> "path", has_pdf |-> FALSE, filename |-> "",
      body |-> b, pdf_path |-> GonePath] : b \in {"invalid", "null", "empty", "other"}}
    \cup {[variant |-> "path", has_pdf |-> FALSE, filename |-> "",
           body |-> "path", pdf_path |-> p] : p \in Paths}
Requests == UploadReqs \cup PathReqs

NoBody == <<>>
NoResp == [status |-> 0, kind |-> "none", body |-> NoBody, cat |-> "none"]
\* jsonify(body), status
Json(status, body, cat) == [status |-> status, kind |-> "json", body |-> body, cat |-> cat]
\* what Flask answers for an exception that leaves the handler
Uncaught(status) == [status |-> status, kind |-> "html", body |-> NoBody, cat |-> "uncaught"]

\* PDFFIGURES2_JAR and the directories os.walk(LIB_DIR) visits, in order
\* (lines 17-18)
JarPath == Path("/app", <<"pdffigures2", "jar">>)
LibRoot(i) == <<"/app/lib", i>>
\* The dependency directory: whether os.path.exists(LIB_DIR), and for each
\* directory os.walk visits, in the order of the visit, the files it lists
NoLib == [exists |-> FALSE, walk |-> <<>>]
DefaultLib == [exists |-> TRUE,
               walk |-> << <<<<"scala", "jar">>, <<"README">>>>, <<<<"pdfbox", "jar">>>> >>]
\* f.endswith('.jar'): the name ends with a dot followed by jar
endswith_jar(n) == Len(n) >= 2 /\ n[Len(n)] = "jar"
\* the entries of jars that come from the files fs of the directory root
RECURSIVE JarsOf(_, _)
JarsOf(root, fs) ==
    IF fs = <<>> THEN <<>>
    ELSE (IF endswith_jar(Head(fs)) THEN <<Path(root, Head(fs))>> ELSE <<>>)
         \o JarsOf(root, Tail(fs))
\* the loop over os.walk(LIB_DIR) (lines 26-29), from the i-th directory on
RECURSIVE WalkFrom(_, _)
WalkFrom(w, i) ==
    IF i > Len(w) THEN <<>>
    ELSE JarsOf(LibRoot(i), w[i]) \o WalkFrom(w, i + 1)
\* ':'.join(jars)
RECURSIVE join(_, _)
join(sep, xs) ==
    IF xs = <<>> THEN <<>>
    ELSE IF Len(xs) = 1 THEN <<xs[1]>>
    ELSE <<xs[1], sep>> \o join(sep, Tail(xs))
\* out: what the tool has written to its output file, for the comparison of
\* the response with the tool's own output
NoOut == [t |-> "none"]
NoProc == [st |-> "none", rc |-> 0, stderr |-> <<>>, pdf |-> GonePath, prefix |-> NoDir,
           cp |-> <<>>, out |-> NoOut]

\* pc, req, resp, work_dir, proc: each handler's position, request, response,
\* working directory and child process; hist, rm, io: the phases the request
\* went through, the outcome of shutil.rmtree, and the files of the working
\* directory the handler looked at; dirs, files: the directories under the
\* data root and their files; used: identifiers uuid4 has returned; ext: the
\* paths that exist outside the data root;
\* prev: category and status of the response sent before the current request.
\* jar: whether PDFFIGURES2_JAR exists; lib: the dependency directory;
\* health_resp: the response of the health handler while it is being sent;
\* calls: the calls of get_classpath made so far, each with its result and
\* the dependency directory as it was.
VARIABLES pc, req, resp, work_dir, proc, hist, rm, io, dirs, files, used, ext, prev,
          jar, lib, health_resp, calls

sysvars == <<jar, lib, health_resp, calls>>
vars == <<pc, req, resp, work_dir, proc, hist, rm, io, dirs, files, used, ext, prev,
          jar, lib, health_resp, calls>>

NoFiles == <<>>

\* Variant of get_classpath that builds the list once and returns it again
\* on the later calls
get_classpath_cached(l) ==
    IF calls # <<>> THEN calls[1].val
    ELSE LET jars == <<JarPath>> \o (IF l.exists THEN WalkFrom(l.walk, 1) ELSE <<>>)
         IN  join(":", jars)

\* get_classpath (lines 20-31) on the dependency directory l
get_classpath(l) ==
    LET jars == <<JarPath>> \o (IF l.exists THEN WalkFrom(l.walk, 1) ELSE <<>>)
    IN  join(":", jars)

\* Variant of health that answers 503 when the artifact is missing
health_unavailable(j) ==
    Json(IF j THEN 200 ELSE 503,
         [status |-> IF j THEN "healthy" ELSE "degraded",
          jar_exists |-> j, jar_path |-> JarPath], "ok")

\* health (lines 37-45); j is os.path.exists(PDFFIGURES2_JAR)
health(j) ==
    Json(200,
         [status |-> IF j THEN "healthy" ELSE "degraded",
          jar_exists |-> j, jar_path |-> JarPath], "ok")

\* No request is being handled and nothing is under the data root
InitHandlers ==
    /\ pc = [r \in Reqs |-> "idle"]
    /\ req = [r \in Reqs |-> NoReq]
    /\ resp = [r \in Reqs |-> NoResp]
    /\ work_dir = [r \in Reqs |-> NoDir]
    /\ proc = [r \in Reqs |-> NoProc]
    /\ hist = [r \in Reqs |-> <<>>]
    /\ rm = [r \in Reqs |-> "none"]
    /\ io = [r \in Reqs |-> {}]
    /\ dirs = {}
    /\ files = [d \in Ids |-> NoFiles]
    /\ used = {}
    /\ ext = {PaperPath, InputPath}
    /\ prev = [cat |-> "none", status |-> 0]
    /\ health_resp = NoResp
    /\ calls = <<>>

Init ==
    /\ InitHandlers
    /\ jar = TRUE
    /\ lib = DefaultLib

\* Variant of FreshIds in which the identifier is the same for every request
SameId(u) == {1}

\* uuid.uuid4 returns an identifier it has not returned before; identifiers
\* are interchangeable, so they are taken in order.
FreshIds(u) == {i \in Ids \ u : \A j \in Ids \ u : i <= j}

\* A request arrives at a free worker.
Receive(r, q) ==
    /\ pc[r] = "idle"
    /\ req' = [req EXCEPT ![r] = q]
    /\ hist' = [hist EXCEPT ![r] = <<"received">>]
    /\ pc' = [pc EXCEPT ![r] = "validate"]
    /\ UNCHANGED <<resp, work_dir, proc, rm, io, dirs, files, used, ext, prev, sysvars>>

\* Variant of ValidateUpload without the check of the filename
ValidateUploadNoFilenameCheck(q) ==
    IF ~q.has_pdf
    THEN Json(400, [error |-> "No PDF file provided"], "validation")
    ELSE NoResp

\* extract_figures, lines 56-61
ValidateUpload(q) ==
    IF ~q.has_pdf
    THEN Json(400, [error |-> "No PDF file provided"], "validation")
    ELSE IF q.filename = ""
    THEN Json(400, [error |-> "Empty filename"], "validation")
    ELSE NoResp

\* Variant of ValidatePath that tests only whether the body is falsy: a dict
\* without the key reaches data['pdf_path'], whose KeyError leaves the handler
ValidatePathNoKeyCheck(q, fs) ==
    IF q.body = "invalid"
    THEN Uncaught(400)
    ELSE IF q.body \in {"null", "empty"}
    THEN Json(400, [error |-> "No pdf_path provided"], "validation")
    ELSE IF q.body # "path"
    THEN Uncaught(500)
    ELSE IF q.pdf_path \notin fs
    THEN Json(404, [error |-> "PDF not found"], "not-found")
    ELSE NoResp

\* Variant of ValidatePath that answers 400 for a path that does not exist
ValidatePathNotFound400(q, fs) ==
    IF q.body = "invalid"
    THEN Uncaught(400)
    ELSE IF q.body \in {"null", "empty"} \/ q.body # "path"
    THEN Json(400, [error |-> "No pdf_path provided"], "validation")
    ELSE IF q.pdf_path \notin fs
    THEN Json(400, [error |-> "PDF not found"], "not-found")
    ELSE NoResp

\* extract_figures_from_path, lines 190-197; fs is the set of existing paths
ValidatePath(q, fs) ==
    IF q.body = "invalid"
    THEN Uncaught(400)
    ELSE IF q.body \in {"null", "empty"} \/ q.body # "path"
    THEN Json(400, [error |-> "No pdf_path provided"], "validation")
    ELSE IF q.pdf_path \notin fs
    THEN Json(404, [error |-> "PDF not found"], "not-found")
    ELSE NoResp

\* Variant of Validate that draws the request identifier before it
\* validates the input
ValidateAfterUuid(r) ==
    /\ pc[r] = "validate"
    /\ \E id \in FreshIds(used) : used' = used \cup {id}
    /\ LET v == IF req[r].variant = "upload" THEN ValidateUpload(req[r])
                ELSE ValidatePath(req[r], ext)
       IN  /\ resp' = [resp EXCEPT ![r] = v]
           /\ pc' = [pc EXCEPT ![r] = IF v = NoResp THEN "stage" ELSE "done"]
    /\ UNCHANGED <<req, work_dir, proc, hist, rm, io, dirs, files, ext, prev, sysvars>>

\* Input validation of both handlers (lines 56-61, 190-197)
Validate(r) ==
    /\ pc[r] = "validate"
    /\ LET v == IF req[r].variant = "upload" THEN ValidateUpload(req[r])
                ELSE ValidatePath(req[r], ext)
       IN  /\ resp' = [resp EXCEPT ![r] = v]
           /\ pc' = [pc EXCEPT ![r] = IF v = NoResp THEN "stage" ELSE "done"]
    /\ UNCHANGED <<req, work_dir, proc, hist, rm, io, dirs, files, used, ext, prev, sysvars>>

\* Variant of Handle whose generic clause comes first and catches the timeout
HandleGenericFirst(e) == Json(500, [error |-> e], "unexpected")

\* The except clauses of both handlers (lines 119-123, 241-245)
Handle(e) ==
    IF e = "TimeoutExpired"
    THEN Json(504, [error |-> "Processing timeout"], "timeout")
    ELSE Json(500, [error |-> e], "unexpected")

\* uuid.uuid4 and os.makedirs (lines 63-68, 199-202). makedirs is called
\* before the try statement: an error it raises leaves the handler.
Stage(r) ==
    /\ pc[r] = "stage"
    /\ \E id \in FreshIds(used) :
        /\ used' = used \cup {id}
        /\ \/ /\ dirs' = dirs \cup {id}
              /\ work_dir' = [work_dir EXCEPT ![r] = id]
              /\ hist' = [hist EXCEPT ![r] = Append(@, "staged")]
              /\ pc' = [pc EXCEPT ![r] =
                            IF req[r].variant = "upload" THEN "save" ELSE "run"]
              /\ resp' = resp
           \/ /\ resp' = [resp EXCEPT ![r] = Uncaught(500)]
              /\ pc' = [pc EXCEPT ![r] = "done"]
              /\ UNCHANGED <<dirs, work_dir, hist>>
    /\ UNCHANGED <<req, proc, rm, io, files, ext, prev, sysvars>>

\* Variant of Save called outside the try statement: its error leaves the
\* handler without cleanup
SaveOutsideTry(r) ==
    /\ pc[r] = "save"
    /\ \/ /\ files' = [files EXCEPT ![work_dir[r]] =
                          [n \in DOMAIN @ \cup {InputPdf} |-> FilePdf]]
          /\ pc' = [pc EXCEPT ![r] = "run"]
          /\ resp' = resp
       \/ /\ resp' = [resp EXCEPT ![r] = Uncaught(500)]
          /\ pc' = [pc EXCEPT ![r] = "done"]
          /\ files' = files
    /\ UNCHANGED <<req, work_dir, proc, hist, rm, io, dirs, used, ext, prev, sysvars>>

\* pdf_file.save(pdf_path), lines 72-73
Save(r) ==
    /\ pc[r] = "save"
    /\ \/ /\ files' = [files EXCEPT ![work_dir[r]] =
                          [n \in DOMAIN @ \cup {InputPdf} |-> FilePdf]]
          /\ pc' = [pc EXCEPT ![r] = "run"]
          /\ resp' = resp
       \/ /\ resp' = [resp EXCEPT ![r] = Handle("OSError")]
          /\ pc' = [pc EXCEPT ![r] = "finally"]
          /\ files' = files
    /\ UNCHANGED <<req, work_dir, proc, hist, rm, io, dirs, used, ext, prev, sysvars>>

\* Variant of PdfArg that gives the tool a copy of the caller's file made in
\* the temporary directory
PdfArgCopy(q, wd) ==
    IF q.variant = "upload" THEN Path(wd, InputPdf)
    ELSE Path("/tmp", basename(q.pdf_path))

\* The path given to the tool: the saved upload, or the caller's path
PdfArg(q, wd) ==
    IF q.variant = "upload" THEN Path(wd, InputPdf) ELSE q.pdf_path

\* Variant of FiguresJsonName that looks for output.json, the name of the
\* unused output_path (line 76)
FiguresJsonNameOutput(q) == <<"output", "json">>

\* The file the handler expects the tool to have written (lines 105, 207, 230)
FiguresJsonName(q) ==
    IF q.variant = "upload" THEN JsonName(<<"input">>)
    ELSE JsonName(splitext(basename(q.pdf_path))[1])

\* subprocess.run starts the child (lines 81-94, 206-220), or fails to
RunStart(r) ==
    /\ pc[r] = "run"
    /\ \/ /\ proc' = [proc EXCEPT ![r] =
                         [st |-> "running", rc |-> 0, stderr |-> <<>>,
                          pdf |-> PdfArg(req[r], work_dir[r]),
                          prefix |-> work_dir[r],
                          cp |-> get_classpath(lib), out |-> NoOut]]
          /\ hist' = [hist EXCEPT ![r] = Append(@, "subprocess-running")]
          /\ pc' = [pc EXCEPT ![r] = "wait"]
          /\ resp' = resp
       \/ /\ resp' = [resp EXCEPT ![r] = Handle("FileNotFoundError")]
          /\ pc' = [pc EXCEPT ![r] = "finally"]
          /\ UNCHANGED <<proc, hist>>
    /\ UNCHANGED <<req, work_dir, rm, io, dirs, files, used, ext, prev, sysvars>>

\* The tool writes <prefix><stem of its input>.json (comment at line 104)
ToolWrite(r, content) ==
    /\ proc[r].st = "running"
    /\ proc[r].prefix \in dirs
    /\ LET n == JsonName(splitext(basename(proc[r].pdf))[1])
           d == proc[r].prefix
       IN  /\ n \notin DOMAIN files[d]
           /\ files' = [files EXCEPT ![d] =
                 [m \in DOMAIN @ \cup {n} |-> IF m = n THEN content ELSE @[m]]]
    /\ proc' = [proc EXCEPT ![r].out = content]
    /\ UNCHANGED <<pc, req, resp, work_dir, hist, rm, io, dirs, used, ext, prev, sysvars>>

\* The tool exits by itself within the timeout
ProcExit(r, rc, n) ==
    /\ proc[r].st = "running"
    /\ proc' = [proc EXCEPT ![r].st = "exited", ![r].rc = rc, ![r].stderr = Stream(n)]
    /\ UNCHANGED <<pc, req, resp, work_dir, hist, rm, io, dirs, files, used, ext, prev, sysvars>>

\* Variant of Timeout that raises TimeoutExpired and leaves the child running
TimeoutNoKill(r) ==
    /\ pc[r] = "wait"
    /\ proc[r].st = "running"
    /\ hist' = [hist EXCEPT ![r] = Append(@, "timed-out")]
    /\ resp' = [resp EXCEPT ![r] = Handle("TimeoutExpired")]
    /\ pc' = [pc EXCEPT ![r] = "finally"]
    /\ UNCHANGED <<req, work_dir, proc, rm, io, dirs, files, used, ext, prev, sysvars>>

\* timeout=60 expires: subprocess.run kills the child and raises TimeoutExpired
Timeout(r) ==
    /\ pc[r] = "wait"
    /\ proc[r].st = "running"
    /\ proc' = [proc EXCEPT ![r].st = "killed", ![r].rc = -9]
    /\ hist' = [hist EXCEPT ![r] = Append(@, "timed-out")]
    /\ resp' = [resp EXCEPT ![r] = Handle("TimeoutExpired")]
    /\ pc' = [pc EXCEPT ![r] = "finally"]
    /\ UNCHANGED <<req, work_dir, rm, io, dirs, files, used, ext, prev, sysvars>>

\* Variant of AfterRun that returns the whole error stream
AfterRunNoCap(p, df, n) ==
    IF p.rc # 0
    THEN Json(500, [error |-> "pdffigures2 extraction failed",
                    stderr |-> p.stderr], "tool-failure")
    ELSE IF n \notin DOMAIN df
    THEN Json(200, [figures |-> <<>>], "ok")
    ELSE LET parsed == json_load(df[n])
         IN  IF ~parsed.ok THEN Handle(parsed.exc)
             ELSE LET t == transform_figures(parsed.value)
                  IN  IF ~t.ok THEN Handle(t.exc)
                      ELSE Json(200, [figures |-> t.figures], "ok")

\* Variant of AfterRun that opens the output file without testing that it
\* exists
AfterRunNoExistsCheck(p, df, n) ==
    IF p.rc # 0
    THEN Json(500, [error |-> "pdffigures2 extraction failed",
                    stderr |-> Prefix(p.stderr, StderrLimit)], "tool-failure")
    ELSE IF n \notin DOMAIN df
    THEN Handle("FileNotFoundError")
    ELSE LET parsed == json_load(df[n])
         IN  IF ~parsed.ok THEN Handle(parsed.exc)
             ELSE LET t == transform_figures(parsed.value)
                  IN  IF ~t.ok THEN Handle(t.exc)
                      ELSE Json(200, [figures |-> t.figures], "ok")

\* Variant of AfterRun that does not look at the exit code
AfterRunIgnoresExit(p, df, n) ==
    IF n \notin DOMAIN df
    THEN Json(200, [figures |-> <<>>], "ok")
    ELSE LET parsed == json_load(df[n])
         IN  IF ~parsed.ok THEN Handle(parsed.exc)
             ELSE LET t == transform_figures(parsed.value)
                  IN  IF ~t.ok THEN Handle(t.exc)
                      ELSE Json(200, [figures |-> t.figures], "ok")

\* Lines 96-117 and 222-239: what the handler answers once the child has
\* exited; df are the files of the working directory, n the expected name.
AfterRun(p, df, n) ==
    IF p.rc # 0
    THEN Json(500, [error |-> "pdffigures2 extraction failed",
                    stderr |-> Prefix(p.stderr, StderrLimit)], "tool-failure")
    ELSE IF n \notin DOMAIN df
    THEN Json(200, [figures |-> <<>>], "ok")
    ELSE LET parsed == json_load(df[n])
         IN  IF ~parsed.ok THEN Handle(parsed.exc)
             ELSE LET t == transform_figures(parsed.value)
                  IN  IF ~t.ok THEN Handle(t.exc)
                      ELSE Json(200, [figures |-> t.figures], "ok")

\* The accesses to the working directory made on the way (lines 107, 111)
AfterRunIo(p, df, wd, n) ==
    IF p.rc # 0 THEN {}
    ELSE IF n \notin DOMAIN df THEN {[op |-> "exists", path |-> Path(wd, n)]}
    ELSE {[op |-> "exists", path |-> Path(wd, n)], [op |-> "open", path |-> Path(wd, n)]}

\* Variant of Completed that runs the tool again after a non-zero exit
CompletedRetry(r) ==
    /\ pc[r] = "wait"
    /\ proc[r].st = "exited"
    /\ LET n == FiguresJsonName(req[r])
           df == files[work_dir[r]]
       IN  /\ resp' = [resp EXCEPT ![r] =
                          IF proc[r].rc # 0 THEN NoResp ELSE AfterRun(proc[r], df, n)]
           /\ io' = [io EXCEPT ![r] = AfterRunIo(proc[r], df, work_dir[r], n)]
    /\ hist' = [hist EXCEPT ![r] =
                   Append(@, IF proc[r].rc # 0 THEN "failed" ELSE "succeeded")]
    /\ pc' = [pc EXCEPT ![r] = IF proc[r].rc # 0 THEN "run" ELSE "finally"]
    /\ UNCHANGED <<req, work_dir, proc, rm, dirs, files, used, ext, prev, sysvars>>

\* subprocess.run returns: the exit code is tested, the output file looked
\* for, read and normalised (lines 96-117, 222-239)
Completed(r) ==
    /\ pc[r] = "wait"
    /\ proc[r].st = "exited"
    /\ LET n == FiguresJsonName(req[r])
           df == files[work_dir[r]]
       IN  /\ resp' = [resp EXCEPT ![r] = AfterRun(proc[r], df, n)]
           /\ io' = [io EXCEPT ![r] = AfterRunIo(proc[r], df, work_dir[r], n)]
    /\ hist' = [hist EXCEPT ![r] =
                   Append(@, IF proc[r].rc # 0 THEN "failed" ELSE "succeeded")]
    /\ pc' = [pc EXCEPT ![r] = "finally"]
    /\ UNCHANGED <<req, work_dir, proc, rm, dirs, files, used, ext, prev, sysvars>>

\* Variant of Finally with the cleanup at the end of the try block only: it
\* is skipped when the response is an error
FinallyOnlyOnSuccess(r) ==
    /\ pc[r] = "finally"
    /\ \/ /\ resp[r].status = 200
          /\ work_dir[r] \in dirs
          /\ dirs' = dirs \ {work_dir[r]}
          /\ files' = [files EXCEPT ![work_dir[r]] = NoFiles]
          /\ rm' = [rm EXCEPT ![r] = "removed"]
          /\ hist' = [hist EXCEPT ![r] = Append(@, "cleaned-up")]
       \/ /\ resp[r].status = 200
          /\ rm' = [rm EXCEPT ![r] = "error"]
          /\ hist' = [hist EXCEPT ![r] = Append(@, "cleaned-up")]
          /\ UNCHANGED <<dirs, files>>
       \/ /\ resp[r].status # 200
          /\ UNCHANGED <<dirs, files, rm, hist>>
    /\ pc' = [pc EXCEPT ![r] = "done"]
    /\ UNCHANGED <<req, resp, work_dir, proc, io, used, ext, prev, sysvars>>

\* Variant of Finally without the inner try statement: the error raised by
\* shutil.rmtree leaves the handler and replaces the response
FinallyRaises(r) ==
    /\ pc[r] = "finally"
    /\ \/ /\ work_dir[r] \in dirs
          /\ dirs' = dirs \ {work_dir[r]}
          /\ files' = [files EXCEPT ![work_dir[r]] = NoFiles]
          /\ rm' = [rm EXCEPT ![r] = "removed"]
          /\ resp' = resp
       \/ /\ rm' = [rm EXCEPT ![r] = "error"]
          /\ resp' = [resp EXCEPT ![r] = Uncaught(500)]
          /\ UNCHANGED <<dirs, files>>
    /\ hist' = [hist EXCEPT ![r] = Append(@, "cleaned-up")]
    /\ pc' = [pc EXCEPT ![r] = "done"]
    /\ UNCHANGED <<req, work_dir, proc, io, used, ext, prev, sysvars>>

\* The finally clause (lines 124-130, 246-251): shutil.rmtree removes the
\* directory or raises, and what it raises is dropped; then the handler
\* returns the response already built.
Finally(r) ==
    /\ pc[r] = "finally"
    /\ \/ /\ work_dir[r] \in dirs
          /\ dirs' = dirs \ {work_dir[r]}
          /\ files' = [files EXCEPT ![work_dir[r]] = NoFiles]
          /\ rm' = [rm EXCEPT ![r] = "removed"]
       \/ /\ rm' = [rm EXCEPT ![r] = "error"]
          /\ UNCHANGED <<dirs, files>>
    /\ hist' = [hist EXCEPT ![r] = Append(@, "cleaned-up")]
    /\ pc' = [pc EXCEPT ![r] = "done"]
    /\ UNCHANGED <<req, resp, work_dir, proc, io, used, ext, prev, sysvars>>

\* The response is sent and the worker is free again.
Release(r) ==
    /\ pc[r] = "done"
    /\ pc' = [pc EXCEPT ![r] = "idle"]
    /\ req' = [req EXCEPT ![r] = NoReq]
    /\ resp' = [resp EXCEPT ![r] = NoResp]
    /\ work_dir' = [work_dir EXCEPT ![r] = NoDir]
    /\ proc' = [proc EXCEPT ![r] = NoProc]
    /\ hist' = [hist EXCEPT ![r] = <<>>]
    /\ rm' = [rm EXCEPT ![r] = "none"]
    /\ io' = [io EXCEPT ![r] = {}]
    /\ UNCHANGED <<dirs, files, used, ext, sysvars>>

Reset(r) == Release(r) /\ prev' = prev

\* The same, remembering the category and status of the response sent
ResetLog(r) == Release(r) /\ prev' = [cat |-> resp[r].cat, status |-> resp[r].status]

\* The steps of a request up to its response
Handling(r) ==
    \/ \E q \in Requests : Receive(r, q)
    \/ Validate(r)
    \/ Stage(r)
    \/ Save(r)
    \/ RunStart(r)
    \/ \E c \in ToolOutputs : ToolWrite(r, c)
    \/ \E e \in Exits : ProcExit(r, e[1], e[2])
    \/ Timeout(r)
    \/ Completed(r)
    \/ Finally(r)

Next == \E r \in MainReqs : Handling(r) \/ Reset(r)

\* The specification that keeps the previous response, to compare the
\* responses of successive requests
NextLog == \E r \in MainReqs : Handling(r) \/ ResetLog(r)

SpecLog == Init /\ [][NextLog]_vars

\* Requests handled at the same time (the development server handles each
\* request in a thread of its own): an upload, a path whose file is also
\* named input.pdf, and a path that does not exist
PathOk == [variant |-> "path", has_pdf |-> FALSE, filename |-> "",
           body |-> "path", pdf_path |-> InputPath]
PathGone == [variant |-> "path", has_pdf |-> FALSE, filename |-> "",
             body |-> "path", pdf_path |-> GonePath]
UploadValid == [variant |-> "upload", has_pdf |-> TRUE, filename |-> "paper.pdf",
                body |-> "none", pdf_path |-> GonePath]
ConcurrentRequests == {UploadValid, PathOk, PathGone}
ConcurrentOutputs == {FileJson(<<>>), FileJson(<<BareFig, FullFig>>)}
ConcurrentExits == {<<0, 1>>, <<1, 1>>}

HandlingC(r) ==
    \/ \E q \in ConcurrentRequests : Receive(r, q)
    \/ Validate(r)
    \/ Stage(r)
    \/ Save(r)
    \/ RunStart(r)
    \/ \E c \in ConcurrentOutputs : ToolWrite(r, c)
    \/ \E e \in ConcurrentExits : ProcExit(r, e[1], e[2])
    \/ Timeout(r)
    \/ Completed(r)
    \/ Finally(r)

NextC == \E r \in Reqs : HandlingC(r) \/ Reset(r)

SpecC == Init /\ [][NextC]_vars

Spec == Init /\ [][Next]_vars

(* ---------------------------------------------------------------------- *)
(* Health check and classpath                                              *)
(* ---------------------------------------------------------------------- *)
\* File names of the dependency directory: a jar, a name that is only the
\* suffix, and a name with the suffix in the middle
LibNames == {<<"scala", "jar">>, <<"", "jar">>, <<"scala", "jar", "bak">>}
Range(sq) == {sq[k] : k \in DOMAIN sq}
\* the listings of a directory: up to n distinct names, in any order
RECURSIVE Listings(_, _)
Listings(S, n) ==
    IF n = 0 THEN {<<>>}
    ELSE LET shorter == Listings(S, n - 1)
         IN  shorter \cup
             UNION {{Append(q, x) : x \in S \ Range(q)} :
                       q \in {t \in shorter : Len(t) = n - 1}}
\* the directories visited: up to n of them, each with one of the listings L
RECURSIVE Walks(_, _)
Walks(L, n) ==
    IF n = 0 THEN {<<>>}
    ELSE LET shorter == Walks(L, n - 1)
         IN  shorter \cup {Append(q, x) : q \in {t \in shorter : Len(t) = n - 1}, x \in L}
Libs == {NoLib} \cup {[exists |-> TRUE, walk |-> w] :
                         w \in Walks(Listings(LibNames, MaxLibFiles), MaxLibDirs)}

\* The artifact is there or not, the dependency directory is the one of the
\* image or any of Libs
InitH ==
    /\ InitHandlers
    /\ jar \in BOOLEAN
    /\ lib \in Libs \cup {DefaultLib}

\* GET /health is answered (lines 37-45)
Health ==
    /\ health_resp = NoResp
    /\ health_resp' = health(jar)
    /\ UNCHANGED <<pc, req, resp, work_dir, proc, hist, rm, io, dirs, files, used, ext,
                   prev, jar, lib, calls>>

\* The response of the health handler is sent
HealthSent ==
    /\ health_resp # NoResp
    /\ health_resp' = NoResp
    /\ UNCHANGED <<pc, req, resp, work_dir, proc, hist, rm, io, dirs, files, used, ext,
                   prev, jar, lib, calls>>

\* A call of get_classpath (lines 81, 206)
GetClasspath ==
    /\ Len(calls) < MaxCalls
    /\ calls' = Append(calls, [val |-> get_classpath(lib), at |-> lib])
    /\ UNCHANGED <<pc, req, resp, work_dir, proc, hist, rm, io, dirs, files, used, ext,
                   prev, jar, lib, health_resp>>

\* The artifact is installed or removed between two requests
JarChange ==
    /\ jar' = ~jar
    /\ UNCHANGED <<pc, req, resp, work_dir, proc, hist, rm, io, dirs, files, used, ext,
                   prev, lib, health_resp, calls>>

\* A file is added to the i-th directory of the dependency directory
LibAdd(i, n) ==
    /\ lib.exists
    /\ i \in DOMAIN lib.walk
    /\ Len(lib.walk[i]) < MaxLibFiles
    /\ n \notin Range(lib.walk[i])
    /\ lib' = [lib EXCEPT !.walk[i] = Append(@, n)]
    /\ UNCHANGED <<pc, req, resp, work_dir, proc, hist, rm, io, dirs, files, used, ext,
                   prev, jar, health_resp, calls>>

NextH ==
    \/ Health
    \/ HealthSent
    \/ GetClasspath
    \/ JarChange
    \/ \E i \in DOMAIN lib.walk, n \in LibNames : LibAdd(i, n)

SpecH == InitH /\ [][NextH]_vars

TypeOK ==
    /\ \A r \in Reqs : pc[r] \in {"idle", "validate", "stage", "save", "run",
                                   "wait", "finally", "done"}
    /\ dirs \subseteq used
    /\ \A d \in Ids : d \notin dirs => files[d] = NoFiles

(* ---------------------------------------------------------------------- *)
(* Normalisation of arbitrary output files                                 *)
(* ---------------------------------------------------------------------- *)
\* Raw figure records with every field missing, null or present; the region
\* is missing, null, empty, complete, partial, or has a null coordinate.
RawRegions ==
    {Missing, JNull, JObj(<<>>),
     JObj([x1 |-> JNum(10), y1 |-> JNum(20), x2 |-> JNum(30), y2 |-> JNum(40)]),
     JObj([x1 |-> JNum(10), y2 |-> JNum(40)]),
     JObj([x1 |-> JNull, y1 |-> JNum(20), x2 |-> JNum(30), y2 |-> JNum(40)])}
RawFigs ==
    {MkDict([name |-> n, figType |-> ft, page |-> pg, regionBoundary |-> rb]) :
        n \in {Missing, JNull, JStr("Figure 1")},
        ft \in {Missing, JNull, JStr("Table")},
        pg \in {Missing, JNull, JNum(2)},
        rb \in RawRegions}
RECURSIVE SeqsUpTo(_, _)
SeqsUpTo(S, n) ==
    IF n = 0 THEN {<<>>}
    ELSE LET shorter == SeqsUpTo(S, n - 1)
         IN  shorter \cup {Append(q, x) : q \in {t \in shorter : Len(t) = n - 1}, x \in S}
RawLists == SeqsUpTo(RawFigs, MaxFigs)

UploadOk == [variant |-> "upload", has_pdf |-> TRUE, filename |-> "paper.pdf",
             body |-> "none", pdf_path |-> GonePath]

\* The upload handler at the point where the tool has exited with code zero
\* and left an arbitrary array of records in its output file.
InitT ==
    /\ pc = [r \in Reqs |-> IF r \in MainReqs THEN "wait" ELSE "idle"]
    /\ req = [r \in Reqs |-> IF r \in MainReqs THEN UploadOk ELSE NoReq]
    /\ resp = [r \in Reqs |-> NoResp]
    /\ work_dir = [r \in Reqs |-> IF r \in MainReqs THEN 1 ELSE NoDir]
    /\ hist = [r \in Reqs |->
                 IF r \in MainReqs THEN <<"received", "staged", "subprocess-running">>
                 ELSE <<>>]
    /\ rm = [r \in Reqs |-> "none"]
    /\ io = [r \in Reqs |-> {}]
    /\ dirs = {1}
    /\ \E raw \in RawLists :
          /\ proc = [r \in Reqs |->
                       IF r \in MainReqs
                       THEN [st |-> "exited", rc |-> 0, stderr |-> <<>>,
                             pdf |-> Path(1, InputPdf), prefix |-> 1,
                             cp |-> get_classpath(DefaultLib), out |-> FileJson(raw)]
                       ELSE NoProc]
          /\ files = [d \in Ids |->
                         IF d = 1
                         THEN [n \in {InputPdf, JsonName(<<"input">>)} |->
                                  IF n = InputPdf THEN FilePdf ELSE FileJson(raw)]
                         ELSE NoFiles]
    /\ used = {1}
    /\ ext = {PaperPath, InputPath}
    /\ prev = [cat |-> "none", status |-> 0]
    /\ jar = TRUE
    /\ lib = DefaultLib
    /\ health_resp = NoResp
    /\ calls = <<>>

NextT == \E r \in MainReqs : Completed(r) \/ Finally(r)

SpecT == InitT /\ [][NextT]_vars

(* ---------------------------------------------------------------------- *)
(* Properties                                                              *)
(* ---------------------------------------------------------------------- *)
Returned(r) == pc[r] = "done"
Created(r) == work_dir[r] # NoDir
Answered(r) == resp[r].kind # "none"
IsJsonError(x) == x.kind = "json" /\ "error" \in DOMAIN x.body
\* what input validation answers to the request of r (NoResp: it passes)
Validation(r) ==
    IF req[r].variant = "upload" THEN ValidateUpload(req[r])
    ELSE ValidatePath(req[r], ext)
Passed(r) == req[r].variant # "none" /\ pc[r] \notin {"idle", "validate"}
             /\ Validation(r) = NoResp
Count(sq, x) == Cardinality({i \in DOMAIN sq : sq[i] = x})
Last(sq) == sq[Len(sq)]
Outcomes == {"succeeded", "failed", "timed-out"}

\* C1 (as stated): when a handler returns, the working directory it created
\* does not exist on disk, whatever the outcome.
C1_DirGoneAtReturn ==
    \A r \in Reqs : Returned(r) /\ Created(r) => work_dir[r] \notin dirs

\* C1 (amended): when a handler that created its working directory returns,
\* it has called shutil.rmtree on it, and the directory does not exist unless
\* that call raised an error (which is dropped), whatever the outcome.
C1_DirGoneUnlessRmtreeFails ==
    \A r \in Reqs :
        Returned(r) /\ Created(r) =>
            /\ rm[r] \in {"removed", "error"}
            /\ (work_dir[r] \in dirs => rm[r] = "error")

C1_Witness ==
    \E r \in Reqs :
        /\ Returned(r) /\ Created(r)
        /\ resp[r].status = 504
        /\ rm[r] = "removed"
        /\ work_dir[r] \notin dirs

\* C2 (as stated): a request that passed validation and whose handler has
\* returned went through received, staged, subprocess-running, one outcome
\* and cleaned-up, in that order.
C2_AllPhasesInOrder ==
    \A r \in Reqs :
        Returned(r) /\ Passed(r) =>
            \E o \in Outcomes :
                hist[r] = <<"received", "staged", "subprocess-running", o, "cleaned-up">>

\* C2 (amended): the phases are visited in that order, none skipped unless
\* an exception cuts the flow short: an error creating the working directory
\* ends the request after received with no cleanup, an exception raised
\* after creation and before the process has started leads directly to
\* cleaned-up; and on every path that follows the creation of the working
\* directory cleanup is run exactly once, as the last step.
C2_PhasesInOrderCleanupOnce ==
    \A r \in Reqs :
        /\ Returned(r) /\ Passed(r) =>
            \/ ~Created(r) /\ hist[r] = <<"received">> /\ resp[r] = Uncaught(500)
            \/ /\ Created(r)
               /\ hist[r] = <<"received", "staged", "cleaned-up">>
               /\ resp[r].cat = "unexpected"
            \/ /\ Created(r)
               /\ \E o \in Outcomes :
                    hist[r] = <<"received", "staged", "subprocess-running", o, "cleaned-up">>
        /\ Count(hist[r], "cleaned-up") <= 1
        /\ Count(hist[r], "cleaned-up") = 1 => Last(hist[r]) = "cleaned-up" /\ Returned(r)
        /\ Created(r) /\ Returned(r) => Count(hist[r], "cleaned-up") = 1

C2_Witness ==
    \E r \in Reqs :
        /\ Returned(r) /\ Passed(r)
        /\ hist[r] = <<"received", "staged", "cleaned-up">>
        /\ resp[r].status = 500

\* C3: once the process has exited by itself with a non-zero code, the
\* response is a 500 whose body has an error field and a stderr field equal
\* to the first min(1000, length) characters of the error stream, and the
\* output file has been neither looked for nor opened.
C3_NonZeroExit ==
    \A r \in Reqs :
        pc[r] \in {"finally", "done"} /\ proc[r].st = "exited" /\ proc[r].rc # 0 =>
            /\ resp[r].status = 500
            /\ IsJsonError(resp[r])
            /\ "stderr" \in DOMAIN resp[r].body
            /\ LET e == resp[r].body.stderr
                   full == proc[r].stderr
               IN  /\ Len(e) = IF Len(full) < 1000 THEN Len(full) ELSE 1000
                   /\ \A i \in 1..Len(e) : e[i] = full[i]
            /\ io[r] = {}

C3_Witness ==
    \E r \in Reqs :
        /\ Returned(r) /\ proc[r].st = "exited" /\ proc[r].rc # 0
        /\ Len(proc[r].stderr) > 1000
        /\ Len(resp[r].body.stderr) = 1000

\* The output file of the tool for the request of r is in its working directory
OutputWritten(r) ==
    /\ proc[r].prefix \in dirs
    /\ JsonName(splitext(basename(proc[r].pdf))[1]) \in DOMAIN files[proc[r].prefix]

\* C4: once the timeout has fired, the response is a 504 with an error
\* field, whether or not the process had written its output file.
C4_Timeout504 ==
    \A r \in Reqs :
        proc[r].st = "killed" =>
            /\ pc[r] \in {"finally", "done"}
            /\ resp[r].status = 504
            /\ IsJsonError(resp[r])

C4_Witness ==
    \E r \in Reqs :
        /\ proc[r].st = "killed"
        /\ pc[r] = "finally"
        /\ OutputWritten(r)
        /\ files[proc[r].prefix][JsonName(splitext(basename(proc[r].pdf))[1])].t = "json"
        /\ resp[r].status = 504

\* C5: when the process has exited with code zero and the file the tool
\* writes its figures to is not in the working directory, the response is
\* 200 with body {figures: []}.
C5_MissingOutputIsEmpty ==
    \A r \in Reqs :
        /\ pc[r] = "finally" /\ proc[r].st = "exited" /\ proc[r].rc = 0
        /\ ~OutputWritten(r)
        => /\ resp[r].status = 200
           /\ resp[r].kind = "json"
           /\ resp[r].body = [figures |-> <<>>]

C5_Witness ==
    \E r \in Reqs :
        /\ pc[r] = "finally" /\ proc[r].st = "exited" /\ proc[r].rc = 0
        /\ req[r].variant = "path"
        /\ ~OutputWritten(r)
        /\ resp[r].status = 200

\* The array of raw records in the output file read by the request of r
RawOf(r) == files[work_dir[r]][JsonName(<<"input">>)].v

NormalizedFrom(raw, fig) ==
    /\ fig.name # JNull
    /\ fig.name = IF "name" \in DOMAIN raw THEN raw.name ELSE JStr("")
    /\ fig.figType # JNull
    /\ fig.figType = IF "figType" \in DOMAIN raw THEN raw.figType ELSE JStr("Figure")
    /\ fig.page.t = "num"
    /\ fig.page = IF "page" \in DOMAIN raw THEN raw.page ELSE JNum(0)
    /\ DOMAIN fig.regionBoundary = {"x1", "y1", "x2", "y2"}
    /\ \A c \in {"x1", "y1", "x2", "y2"} :
          "regionBoundary" \notin DOMAIN raw
          \/ raw.regionBoundary.t # "obj"
          \/ c \notin DOMAIN raw.regionBoundary.o
          => fig.regionBoundary[c] = JNum(0)

\* C6: for an output file holding an array of N raw records, whatever fields
\* are missing, present or null, the response is 200 with exactly N entries
\* in the same order, each with a non-null name ("" when absent), a non-null
\* figType ("Figure" when absent), a numeric page (0 when absent) and a
\* regionBoundary with x1, y1, x2, y2 (each 0 when absent).
C6_NormalizedEntries ==
    \A r \in Reqs :
        pc[r] = "finally" /\ proc[r].st = "exited" /\ proc[r].rc = 0
        /\ req[r].variant = "upload" /\ OutputWritten(r)
        /\ files[work_dir[r]][JsonName(<<"input">>)].t = "json"
        => /\ resp[r].status = 200
           /\ "figures" \in DOMAIN resp[r].body
           /\ Len(resp[r].body.figures) = Len(RawOf(r))
           /\ \A i \in 1..Len(RawOf(r)) :
                 NormalizedFrom(RawOf(r)[i], resp[r].body.figures[i])

\* C7: POST /extract answers 400 with an error field when the pdf field is
\* absent, 400 when its filename is empty, and lets every other request go
\* on to staging.
C7_UploadValidation ==
    \A r \in Reqs :
        req[r].variant = "upload" /\ pc[r] \notin {"idle", "validate"} =>
            /\ ~req[r].has_pdf =>
                  resp[r].status = 400 /\ IsJsonError(resp[r]) /\ Returned(r)
            /\ req[r].has_pdf /\ req[r].filename = "" =>
                  resp[r].status = 400 /\ IsJsonError(resp[r]) /\ Returned(r)
            /\ req[r].has_pdf /\ req[r].filename # "" =>
                  /\ resp[r].status # 400
                  /\ \/ pc[r] = "stage" /\ ~Answered(r)
                     \/ Created(r)
                     \/ resp[r] = Uncaught(500) /\ hist[r] = <<"received">>

C7_Witness ==
    \E r \in Reqs :
        /\ req[r].variant = "upload" /\ req[r].has_pdf /\ req[r].filename = ""
        /\ Returned(r)
        /\ resp[r].status = 400

\* subprocess.run has been called for the request of r
Invoked(r) == proc[r].st # "none" \/ resp[r] = Handle("FileNotFoundError")

ErrorCats == {"validation", "not-found", "tool-failure", "timeout", "unexpected"}
\* the response being returned for r, and the one sent before it
Sent(r) == [cat |-> resp[r].cat, status |-> resp[r].status]

\* C9 (as stated): two responses of different error categories never have
\* the same status.
C9_DistinctStatusPerCategory ==
    \A r \in Reqs :
        Returned(r) /\ Sent(r).cat \in ErrorCats /\ prev.cat \in ErrorCats
        /\ Sent(r).cat # prev.cat
        => Sent(r).status # prev.status

\* C9 (amended): two responses of different error categories have different
\* statuses unless one is a tool failure and the other an unexpected
\* internal error, which both answer 500.
C9_DistinctExceptBoth500 ==
    \A r \in Reqs :
        Returned(r) /\ Sent(r).cat \in ErrorCats /\ prev.cat \in ErrorCats
        /\ Sent(r).cat # prev.cat
        => \/ Sent(r).status # prev.status
           \/ /\ {Sent(r).cat, prev.cat} = {"tool-failure", "unexpected"}
              /\ Sent(r).status = 500

C9_Witness ==
    \E r \in Reqs :
        /\ Returned(r)
        /\ Sent(r) = [cat |-> "unexpected", status |-> 500]
        /\ prev = [cat |-> "tool-failure", status |-> 500]

\* C10: every response with a status other than 200 is a JSON object with
\* an error field, wherever handling failed.
C10_ErrorsAreJson ==
    \A r \in Reqs :
        Answered(r) /\ resp[r].status # 200 => IsJsonError(resp[r])

\* C11: the step that removes the working directory leaves the response as
\* the try block built it, whether shutil.rmtree removes the directory or
\* raises an error: status and body are the same in both cases, and the
\* error of the removal is not in the response.
C11_CleanupFailureSilent ==
    [][\A r \in Reqs :
          pc[r] = "finally" /\ pc'[r] = "done" =>
              /\ rm'[r] \in {"removed", "error"}
              /\ resp'[r] = resp[r]
              /\ resp'[r].status \in {200, 500, 504}
              /\ resp'[r].kind = "json"]_vars

C11_Witness ==
    \E r \in Reqs :
        /\ Returned(r)
        /\ rm[r] = "error"
        /\ work_dir[r] \in dirs
        /\ resp[r].status = 200
        /\ resp[r].body.figures # <<>>

\* C12: the step that answers GET /health gives status 200, a status field
\* that is "degraded" exactly when the artifact path does not exist and
\* "healthy" otherwise, and jar_exists equal to that test; it leaves the
\* filesystem as it was, creates no working directory and starts no process.
C12_Health ==
    [][health_resp = NoResp /\ health_resp' # NoResp =>
          /\ health_resp'.status = 200
          /\ health_resp'.kind = "json"
          /\ health_resp'.body.status = "degraded" <=> ~jar
          /\ health_resp'.body.status = "healthy" <=> jar
          /\ health_resp'.body.jar_exists = jar
          /\ UNCHANGED <<jar, lib, ext, dirs, files, used, work_dir, proc>>]_vars

C12_Witness ==
    /\ health_resp # NoResp
    /\ ~jar
    /\ health_resp.status = 200
    /\ health_resp.body.status = "degraded"
    /\ health_resp.body.jar_exists = FALSE

\* The entries of a classpath: what stands between the separators
Entries(val) == [k \in 1..((Len(val) + 1) \div 2) |-> val[2 * k - 1]]
\* The positions <<directory, file>> of the files ending in .jar under the
\* dependency directory l, and how many of them come before position x
JarFiles(l) ==
    IF ~l.exists THEN {}
    ELSE {x \in UNION {{<<i, k>> : k \in DOMAIN l.walk[i]} : i \in DOMAIN l.walk} :
             LET n == l.walk[x[1]][x[2]]
             IN  Len(n) >= 2 /\ n[Len(n)] = "jar"}
Before(l, x) ==
    Cardinality({y \in JarFiles(l) : y[1] < x[1] \/ (y[1] = x[1] /\ y[2] < x[2])})

\* C15: every call of get_classpath returns the primary artifact first,
\* then the file of each position ending in .jar under the dependency
\* directory as it is at the call, in the order of the traversal, and
\* nothing else; the artifact alone when the directory does not exist; and
\* two calls on the same directory state return the same list.
C15_Classpath ==
    \A c \in DOMAIN calls :
        LET l == calls[c].at
            val == calls[c].val
            es == Entries(val)
        IN  /\ Len(val) = 2 * Len(es) - 1
            /\ \A k \in 1..(Len(es) - 1) : val[2 * k] = ":"
            /\ es[1] = JarPath
            /\ Len(es) = 1 + Cardinality(JarFiles(l))
            /\ \A x \in JarFiles(l) :
                  es[2 + Before(l, x)] = Path(LibRoot(x[1]), l.walk[x[1]][x[2]])
            /\ ~l.exists => val = <<JarPath>>
            /\ \A d \in DOMAIN calls : calls[d].at = l => calls[d].val = val

\* a jar added between two calls is in the result of the second, which has
\* jars of two directories and leaves out a file that is no jar
C15_Witness ==
    /\ Len(calls) = 2
    /\ \E x \in JarFiles(calls[2].at) :
          LET p == Path(LibRoot(x[1]), calls[2].at.walk[x[1]][x[2]])
          IN  /\ p \in Range(Entries(calls[2].val))
              /\ p \notin Range(Entries(calls[1].val))
    /\ \E x, y \in JarFiles(calls[2].at) : x[1] # y[1]
    /\ \E i \in DOMAIN calls[2].at.walk :
          \E n \in Range(calls[2].at.walk[i]) : n[Len(n)] # "jar"

\* C13: within one request the process is started at most once, nothing is
\* started after an outcome, and after a non-zero exit or a timeout the
\* handler has its response (500, 504) and is at or past cleanup.
C13_NoRetry ==
    \A r \in Reqs :
        /\ Count(hist[r], "subprocess-running") <= 1
        /\ proc[r].st = "running" => Last(hist[r]) = "subprocess-running"
        /\ Count(hist[r], "failed") >= 1 =>
              /\ proc[r].st = "exited" /\ proc[r].rc # 0
              /\ pc[r] \in {"finally", "done"}
              /\ resp[r].status = 500
        /\ Count(hist[r], "timed-out") >= 1 =>
              /\ proc[r].st = "killed"
              /\ pc[r] \in {"finally", "done"}
              /\ resp[r].status = 504

C13_Witness ==
    \E r \in Reqs :
        /\ Returned(r)
        /\ Count(hist[r], "subprocess-running") = 1
        /\ Count(hist[r], "failed") = 1
        /\ resp[r].status = 500

\* C16: a request whose response is the 504 has its process killed, the
\* removal of the working directory is never attempted while the process
\* runs, and no process is running once the handler has returned.
C16_KilledBeforeResponse ==
    \A r \in Reqs :
        /\ resp[r].status = 504 => proc[r].st = "killed"
        /\ rm[r] # "none" => proc[r].st # "running"
        /\ pc[r] \in {"finally", "done"} => proc[r].st # "running"

C16_Witness ==
    \E r \in Reqs :
        /\ Returned(r)
        /\ proc[r].st = "killed"
        /\ Last(hist[r]) = "cleaned-up"
        /\ resp[r].status = 504
        /\ rm[r] = "removed"

\* C18: the step in which input validation rejects a request (400, 404)
\* draws no identifier, leaves the data root and the files outside it as
\* they were, and the request has no working directory and no process.
C18_RejectionHasNoEffect ==
    [][\A r \in Reqs :
          pc[r] = "validate" /\ pc'[r] = "done" =>
              /\ resp'[r].status \in {400, 404}
              /\ UNCHANGED <<used, dirs, files, ext>>
              /\ work_dir'[r] = NoDir
              /\ proc'[r] = NoProc
              /\ hist'[r] = <<"received">>]_vars

C18_Witness ==
    \E r \in Reqs :
        /\ Returned(r)
        /\ resp[r].status = 404
        /\ req[r].variant = "path"
        /\ used = {} /\ dirs = {}
        /\ proc[r] = NoProc

\* C19: a 200 response is there only if the process was started and exited
\* by itself with code zero, never after a non-zero exit, a timeout or an
\* exception; with a non-empty figures list only if in addition the output
\* file was found, opened and held well-formed JSON.
C19_SuccessOnlyAfterCleanExit ==
    \A r \in Reqs :
        resp[r].status = 200 =>
            /\ proc[r].st = "exited" /\ proc[r].rc = 0
            /\ Count(hist[r], "subprocess-running") = 1
            /\ Count(hist[r], "succeeded") = 1
            /\ Count(hist[r], "failed") = 0 /\ Count(hist[r], "timed-out") = 0
            /\ resp[r].cat = "ok" /\ ~IsJsonError(resp[r])
            /\ resp[r].body.figures # <<>> =>
                  /\ {a.op : a \in io[r]} = {"exists", "open"}
                  /\ proc[r].out.t = "json"

C19_Witness ==
    \E r \in Reqs :
        /\ pc[r] = "finally"
        /\ resp[r].status = 200
        /\ Len(resp[r].body.figures) = 2
        /\ proc[r].rc = 0 /\ proc[r].st = "exited"
        /\ proc[r].out = FileJson(<<BareFig, FullFig>>)

\* A file name without its extension: what precedes the last dot, the whole
\* name when it has no dot or only leading ones
StemOf(n) ==
    IF Len(n) >= 2 /\ \E i \in 1..(Len(n) - 1) : n[i] # ""
    THEN [i \in 1..(Len(n) - 1) |-> n[i]]
    ELSE n

\* C17: every file the handler tests for or opens is in the directory given
\* to the tool as output prefix, which is the request's working directory,
\* and is named after the input's basename without its extension, followed
\* by .json: input.json in the upload variant, the stem of the caller's
\* file name in the path variant.
C17_OutputFileLocation ==
    \A r \in Reqs :
        \A a \in io[r] :
            /\ proc[r].prefix = work_dir[r]
            /\ a.path.dir = proc[r].prefix
            /\ a.path.name = StemOf(proc[r].pdf.name) \o <<"json">>
            /\ req[r].variant = "upload" => a.path.name = <<"input", "json">>
            /\ req[r].variant = "path" =>
                  a.path.name = StemOf(req[r].pdf_path.name) \o <<"json">>

C17_Witness ==
    \E r \in Reqs :
        /\ req[r].variant = "path"
        /\ req[r].pdf_path = PaperPath
        /\ [op |-> "open", path |-> Path(work_dir[r], <<"paper", "v2", "json">>)] \in io[r]
        /\ resp[r].status = 200

\* C20: while a request of the path variant is handled, no step changes
\* the files outside the data root, the process is given the caller's path
\* itself, no copy of the document is in the working directory, and every
\* other directory under the data root stays as it is, with its files.
C20_PathVariantFrame ==
    [][\A r \in Reqs :
          req[r].variant = "path" /\ pc[r] \notin {"idle", "done"} =>
              /\ ext' = ext
              /\ proc'[r].st # "none" => proc'[r].pdf = req[r].pdf_path
              /\ work_dir'[r] # NoDir =>
                    \A n \in DOMAIN files'[work_dir'[r]] :
                        files'[work_dir'[r]][n].t # "pdf"
              /\ \A d \in Ids \ {work_dir[r], work_dir'[r]} :
                    /\ d \in dirs <=> d \in dirs'
                    /\ files'[d] = files[d]]_vars

\* the request is answered and its directory removed while the caller's
\* file and a directory left behind by an earlier request are still there
C20_Witness ==
    \E r \in Reqs :
        /\ Returned(r)
        /\ req[r].variant = "path"
        /\ proc[r].pdf = req[r].pdf_path
        /\ req[r].pdf_path \in ext
        /\ rm[r] = "removed"
        /\ \E d \in dirs : d # work_dir[r] /\ DOMAIN files[d] # {}

InFlight(r) == pc[r] \notin {"idle", "done"}
\* The output file of a request as its own process left it
OwnOutput(r) ==
    [n \in (IF proc[r].out # NoOut THEN {FiguresJsonName(req[r])} ELSE {}) |-> proc[r].out]

\* C14: with requests handled at the same time, two requests in flight
\* never have the same working directory; the working directory of a request
\* exists until its own cleanup and holds only the files of that request,
\* as the request and its process wrote them; the files a request looks for
\* are in its own directory; and the response after the process has exited
\* is the one computed from the request's own process and the output of
\* that process alone.
C14_Isolation ==
    \A r \in Reqs :
        /\ \A o \in Reqs \ {r} :
              InFlight(r) /\ InFlight(o) /\ Created(r) /\ Created(o) =>
                  work_dir[r] # work_dir[o]
        /\ InFlight(r) /\ Created(r) =>
              LET own == files[work_dir[r]]
                  n == FiguresJsonName(req[r])
              IN  /\ work_dir[r] \in dirs
                  /\ DOMAIN own \subseteq
                        {n} \cup (IF req[r].variant = "upload" THEN {InputPdf} ELSE {})
                  /\ n \in DOMAIN own <=> proc[r].out # NoOut
                  /\ n \in DOMAIN own => own[n] = proc[r].out
                  /\ req[r].variant = "upload" /\ pc[r] \in {"run", "wait"} =>
                        InputPdf \in DOMAIN own /\ own[InputPdf] = FilePdf
        /\ \A a \in io[r] : a.path.dir = work_dir[r]
        /\ pc[r] \in {"finally", "done"} /\ proc[r].st = "exited" =>
              resp[r] = AfterRun(proc[r], OwnOutput(r), FiguresJsonName(req[r]))

\* two requests whose output files have the same name are in flight, one
\* answered with the figures of its own process while the process of the
\* other has written an empty list
C14_Witness ==
    \E r, o \in Reqs :
        /\ r # o
        /\ req[r].variant = "upload" /\ req[o].variant = "path"
        /\ pc[r] = "finally" /\ pc[o] = "wait"
        /\ work_dir[r] # work_dir[o]
        /\ proc[o].out = FileJson(<<>>)
        /\ resp[r].status = 200
        /\ Len(resp[r].body.figures) = 2

====
